---- MODULE Spec2Model ----
(***************************************************************************)
(* Model of backend/internal/websocket/manager.go: the connection manager  *)
(* (Manager.Run and its three handlers), the dispatch calls SendToUser and *)
(* SendToDevice issued by HTTP handlers, and per connection the            *)
(* HandleWebSocket handler, the readPump and the writePump goroutines.     *)
(*                                                                         *)
(* A Go channel is a record [buf, closed].  A send on a closed channel and *)
(* a close of a closed channel panic.  A panic in the Manager.Run or in a  *)
(* readPump goroutine ends the process (fatal); a panic inside SendToUser  *)
(* or SendToDevice unwinds the HTTP handler that called it, which net/http *)
(* recovers, after the deferred RUnlock has run.                           *)
(***************************************************************************)
EXTENDS Integers, Sequences, FiniteSets, TLC

\* Bounds of the model.
NumCallers == 1          \* HTTP handlers that may be inside a dispatch call at once
MailboxCap == 2          \* capacity of Client.Send (256 in the source, scaled down)
MaxMalformed == 1        \* malformed frames a peer sends on one connection

\* Durations, in units of 6 s and scaled down (10 and 9 units in the source):
ReadWait == 3            \* the read deadline set by readPump and by the pong handler (60 s)
PingPeriod == 2          \* the period of the ticker of writePump (54 s)

Clients == {1, 2}                    \* the connections that are ever attempted
Callers == 1..NumCallers
UserIDs == {0, 1, 2}                 \* 0 is the anonymous user
DeviceIDs == {"dev-1", "dev-2"}
Nil == 0                             \* absent map entry / nil pointer
NoDevice == "none"

\* Message.Type of the messages the server enqueues
TypeNotification == "notification"
TypeDeviceData == "device_data"
TypeHeartbeat == "heartbeat"
TypeError == "error"

VARIABLES
    hpc,          \* HandleWebSocket per connection: "idle", "rejected", "handoff", "started"
    ID,           \* Client.ID
    UserID,       \* Client.UserID, from the user_id of the connection's request
    Send,         \* Client.Send: [buf : Seq(kind), closed : BOOLEAN]
    Subscriptions,\* Client.Subscriptions (the keys mapped to true)
    connOpen,     \* Client.Conn not yet closed
    reader,       \* readPump: "none", "run", "exiting" (blocked on unregister <- c), "done"
    writer,       \* writePump: "none", "run", "done"
    clients,      \* Manager.clients: id -> client or Nil
    userClients,  \* Manager.userClients: user -> (id -> client or Nil)
    mgr,          \* Manager.Run: [pc, c, todo]
    disp,         \* dispatch calls in progress, per caller
    fatal,        \* "none" or the panic/throw that ended the process
    timers,       \* per connection: deadline, the time left until the read
                  \* deadline of Client.Conn; ticker, the time left until the
                  \* ticker of writePump fires; pinged, a ping was written and
                  \* the peer has not answered it
    \* history (not program state)
    closes,       \* number of close(client.Send) executed per client
    registered,   \* registerClient has returned for the client
    unregistered, \* unregisterClient has returned for the client
    overflow,     \* who found the client's mailbox full and closed it
    unsub,        \* topics the client unsubscribed from and has not subscribed to since
    malformed     \* the malformed frames the reader of the client has received, in order

vars == <<hpc, ID, UserID, Send, Subscriptions, connOpen, reader, writer,
          clients, userClients, mgr, disp, fatal, timers,
          closes, registered, unregistered, overflow, unsub, malformed>>

conn == <<hpc, ID, UserID, connOpen>>
hist == <<closes, registered, unregistered, overflow, unsub, malformed>>

\* the timers of a connection before its pumps have started
NoTimers == [deadline |-> 0, ticker |-> 0, pinged |-> FALSE]

----------------------------------------------------------------------------
\* Channels

NewChan == [buf |-> <<>>, closed |-> FALSE]

\* a buffer that takes one message more than its capacity
FullBeyond(ch) == Len(ch.buf) > MailboxCap

\* the buffer of   make(chan Message, 256)   has no room left
Full(ch) == Len(ch.buf) >= MailboxCap

Enqueue(ch, m) == [ch EXCEPT !.buf = Append(@, m)]

Close(ch) == [ch EXCEPT !.closed = TRUE]

\* Outcome of   select { case ch <- m: ... default: ... }
SelectSend(ch) ==
    IF ch.closed THEN "panic"
    ELSE IF Full(ch) THEN "default"
    ELSE "sent"

----------------------------------------------------------------------------
\* Registry helpers

IdleMgr == [pc |-> "idle", c |-> Nil, todo |-> {}]

\* todo: the entries the range has still to yield; sent: the clients the call has
\* enqueued its message to (history)
IdleDisp == [pc |-> "idle", kind |-> "none", userID |-> 0, deviceID |-> NoDevice,
             todo |-> {}, sent |-> {}]

\* the values of a map id -> client
Range(m) == {m[i] : i \in DOMAIN m} \ {Nil}

EmptyMap == [i \in Clients |-> Nil]

\* some dispatch call holds m.mu.RLock
RLocked == \E d \in Callers : disp[d].pc = "run"

GetClientCount == Cardinality({i \in Clients : clients[i] # Nil})

GetUserClientCount(u) == Cardinality({i \in Clients : userClients[u][i] # Nil})

\* generateClientID: the time of day in seconds and eight characters, each
\* charset[time.Now().UnixNano() % 62].  The id is a function of the clock
\* readings alone, and nothing compares it with the ids in use: a connection made
\* at clock readings of its own gets an id of its own (c), one made at the
\* readings of an earlier connection gets the id of that connection.
generateClientID(c) == {i \in Clients : i <= c}

\* the connection c is made at clock readings of its own
OwnClockReading(c) == ID'[c] \in {Nil, c}

\* The identities that the requests of the connections carry ("user_id" of the
\* gin context, 0 when absent), up to a renaming of connections and identities:
\* the same identity, two identities, an anonymous and an identified connection.
Identities == {f \in [Clients -> UserIDs] :
                 /\ f[1] \in {0, 1}
                 /\ \A c \in Clients \ {1} : f[c] \in {f[1], f[1] + 1}}

\* getUserIDFromContext on the request of connection c
getUserIDFromContext(c) == UserID[c]

----------------------------------------------------------------------------
Init ==
    /\ hpc = [c \in Clients |-> "idle"]
    /\ ID = [c \in Clients |-> Nil]
    /\ UserID \in Identities
    /\ Send = [c \in Clients |-> NewChan]
    /\ Subscriptions = [c \in Clients |-> {}]
    /\ connOpen = [c \in Clients |-> FALSE]
    /\ reader = [c \in Clients |-> "none"]
    /\ writer = [c \in Clients |-> "none"]
    /\ clients = EmptyMap
    /\ userClients = [u \in UserIDs |-> EmptyMap]
    /\ mgr = IdleMgr
    /\ disp = [d \in Callers |-> IdleDisp]
    /\ fatal = "none"
    /\ timers = [c \in Clients |-> NoTimers]
    /\ closes = [c \in Clients |-> 0]
    /\ registered = [c \in Clients |-> FALSE]
    /\ unregistered = [c \in Clients |-> FALSE]
    /\ overflow = [c \in Clients |-> "none"]
    /\ unsub = [c \in Clients |-> {}]
    /\ malformed = [c \in Clients |-> <<>>]

----------------------------------------------------------------------------
\* a HandleWebSocket that logs the failed upgrade and goes on without returning
HandleWebSocketGoesOn(c) ==
    /\ fatal = "none"
    /\ hpc[c] = "idle"
    /\ \E upgraded \in BOOLEAN, id \in generateClientID(c) :
         /\ hpc' = [hpc EXCEPT ![c] = IF upgraded THEN "handoff" ELSE "rejected"]
         /\ ID' = [ID EXCEPT ![c] = id]
         /\ UserID' = [UserID EXCEPT ![c] = getUserIDFromContext(c)]
         /\ Send' = [Send EXCEPT ![c] = NewChan]
         /\ Subscriptions' = [Subscriptions EXCEPT ![c] = {}]
         /\ connOpen' = [connOpen EXCEPT ![c] = upgraded]
         /\ IF upgraded
            THEN UNCHANGED <<reader, writer>>
            ELSE /\ reader' = [reader EXCEPT ![c] = "run"]
                 /\ writer' = [writer EXCEPT ![c] = "run"]
    /\ UNCHANGED <<clients, userClients, mgr, disp, fatal, hist, timers>>

\* HandleWebSocket, up to the blocking send   DefaultManager.register <- client
HandleWebSocket(c) ==
    /\ fatal = "none"
    /\ hpc[c] = "idle"
    /\ \E upgraded \in BOOLEAN, id \in generateClientID(c) :
         IF ~upgraded
         THEN /\ hpc' = [hpc EXCEPT ![c] = "rejected"]
              /\ UNCHANGED <<ID, UserID, Send, Subscriptions, connOpen>>
         ELSE /\ hpc' = [hpc EXCEPT ![c] = "handoff"]
              /\ ID' = [ID EXCEPT ![c] = id]
              /\ UserID' = [UserID EXCEPT ![c] = getUserIDFromContext(c)]
              /\ Send' = [Send EXCEPT ![c] = NewChan]
              /\ Subscriptions' = [Subscriptions EXCEPT ![c] = {}]
              /\ connOpen' = [connOpen EXCEPT ![c] = TRUE]
    /\ UNCHANGED <<reader, writer, clients, userClients, mgr, disp, fatal, hist, timers>>

\* Manager.Run receives on m.register: the send in HandleWebSocket returns and
\* the handler starts writePump, which creates its ticker, and readPump, which
\* sets the first read deadline.
RunRegister(c) ==
    /\ fatal = "none"
    /\ mgr.pc = "idle"
    /\ hpc[c] = "handoff"
    /\ mgr' = [pc |-> "register", c |-> c, todo |-> {}]
    /\ hpc' = [hpc EXCEPT ![c] = "started"]
    /\ reader' = [reader EXCEPT ![c] = "run"]
    /\ writer' = [writer EXCEPT ![c] = "run"]
    /\ timers' = [timers EXCEPT ![c].deadline = ReadWait, ![c].ticker = PingPeriod]
    /\ UNCHANGED <<ID, UserID, Send, Subscriptions, connOpen, clients, userClients,
                   disp, fatal, hist>>

\* Manager.registerClient, under m.mu.Lock
registerClient ==
    /\ fatal = "none"
    /\ mgr.pc = "register"
    /\ ~RLocked
    /\ LET c == mgr.c
           r == SelectSend(Send[c])
       IN /\ clients' = [clients EXCEPT ![ID[c]] = c]
          /\ userClients' = [userClients EXCEPT ![UserID[c]][ID[c]] = c]
          /\ registered' = [registered EXCEPT ![c] = TRUE]
          /\ CASE r = "sent" ->
                    /\ Send' = [Send EXCEPT ![c] = Enqueue(@, TypeNotification)]
                    /\ UNCHANGED <<fatal, closes, overflow>>
               [] r = "default" ->
                    /\ Send' = [Send EXCEPT ![c] = Close(@)]
                    /\ closes' = [closes EXCEPT ![c] = @ + 1]
                    /\ overflow' = [overflow EXCEPT ![c] = "welcome"]
                    /\ UNCHANGED fatal
               [] r = "panic" ->
                    /\ fatal' = "send on closed channel"
                    /\ UNCHANGED <<Send, closes, overflow>>
    /\ mgr' = IdleMgr
    /\ UNCHANGED <<conn, Subscriptions, reader, writer, disp, unregistered, unsub,
                   malformed, timers>>

\* Manager.Run receives on m.unregister: the send in readPump's deferred
\* function returns and readPump closes the connection.
RunUnregister(c) ==
    /\ fatal = "none"
    /\ mgr.pc = "idle"
    /\ reader[c] = "exiting"
    /\ mgr' = [pc |-> "unregister", c |-> c, todo |-> {}]
    /\ reader' = [reader EXCEPT ![c] = "done"]
    /\ connOpen' = [connOpen EXCEPT ![c] = FALSE]
    /\ UNCHANGED <<hpc, ID, UserID, Send, Subscriptions, writer, clients, userClients,
                   disp, fatal, hist, timers>>

\* delete(m.userClients[u], id), and delete(m.userClients, u) when that leaves it empty
DeleteUser(uc, u, id) == [uc EXCEPT ![u][id] = Nil]

\* Manager.unregisterClient, under m.mu.Lock
unregisterClient ==
    /\ fatal = "none"
    /\ mgr.pc = "unregister"
    /\ ~RLocked
    /\ LET c == mgr.c
       IN IF clients[ID[c]] # Nil
          THEN /\ clients' = [clients EXCEPT ![ID[c]] = Nil]
               /\ userClients' = DeleteUser(userClients, UserID[c], ID[c])
               /\ closes' = [closes EXCEPT ![c] = @ + 1]
               /\ IF Send[c].closed
                  THEN /\ fatal' = "close of closed channel"
                       /\ UNCHANGED <<Send, unregistered>>
                  ELSE /\ Send' = [Send EXCEPT ![c] = Close(@)]
                       /\ unregistered' = [unregistered EXCEPT ![c] = TRUE]
                       /\ UNCHANGED fatal
          ELSE /\ unregistered' = [unregistered EXCEPT ![c] = TRUE]
               /\ UNCHANGED <<clients, userClients, closes, Send, fatal>>
    /\ mgr' = IdleMgr
    /\ UNCHANGED <<conn, Subscriptions, reader, writer, disp, registered, overflow, unsub,
                   malformed, timers>>

\* Manager.Broadcast: the caller's send on m.broadcast is received by Manager.Run,
\* which enters broadcastMessage and takes m.mu.RLock.
RunBroadcast ==
    /\ fatal = "none"
    /\ mgr.pc = "idle"
    /\ Range(clients) # {}
    /\ mgr' = [pc |-> "broadcast", c |-> Nil, todo |-> Range(clients)]
    /\ UNCHANGED <<conn, Send, Subscriptions, reader, writer, clients, userClients,
                   disp, fatal, hist, timers>>

\* a SendToDevice call is ranging over m.clients
RangingClients == \E d \in Callers : disp[d].pc = "run" /\ disp[d].kind = "device"

\* One iteration of the loop of Manager.broadcastMessage.  The delete is made
\* under the read lock: with a SendToDevice call ranging over m.clients at the
\* same time it is a data race, which the runtime may detect and throw on.
broadcastMessage(c) ==
    /\ fatal = "none"
    /\ mgr.pc = "broadcast"
    /\ c \in mgr.todo
    /\ LET r == SelectSend(Send[c])
       IN CASE r = "sent" ->
                 /\ Send' = [Send EXCEPT ![c] = Enqueue(@, TypeNotification)]
                 /\ UNCHANGED <<clients, fatal, closes, overflow>>
            [] r = "default" ->
                 /\ Send' = [Send EXCEPT ![c] = Close(@)]
                 /\ closes' = [closes EXCEPT ![c] = @ + 1]
                 /\ overflow' = [overflow EXCEPT ![c] = "broadcast"]
                 /\ clients' = [clients EXCEPT ![ID[c]] = Nil]
                 /\ \/ UNCHANGED fatal
                    \/ /\ RangingClients
                       /\ fatal' = "concurrent map iteration and map write"
            [] r = "panic" ->
                 /\ fatal' = "send on closed channel"
                 /\ UNCHANGED <<Send, clients, closes, overflow>>
    /\ mgr' = IF mgr.todo = {c} THEN IdleMgr ELSE [mgr EXCEPT !.todo = @ \ {c}]
    /\ UNCHANGED <<conn, Subscriptions, reader, writer, userClients, disp,
                   registered, unregistered, unsub, malformed, timers>>

----------------------------------------------------------------------------
\* Dispatch calls made by HTTP handlers

\* a call that falls back on all of m.clients when its lookup finds nobody
CallFallsBack(kind, u, dev, t) ==
    LET all == IF t = {} THEN Range(clients) ELSE t
    IN IF all = {} THEN IdleDisp
       ELSE [pc |-> "run", kind |-> kind, userID |-> u, deviceID |-> dev, todo |-> all,
             sent |-> {}]

\* the record of a call that has taken m.mu.RLock and is about to range over t;
\* with nothing to range over the call returns at once
Call(kind, u, dev, t) ==
    IF t = {} THEN IdleDisp
    ELSE [pc |-> "run", kind |-> kind, userID |-> u, deviceID |-> dev, todo |-> t,
          sent |-> {}]

\* SendToUser ranging over m.clients instead of m.userClients[userID]
SendToUserEveryone(d, u) ==
    /\ fatal = "none"
    /\ disp[d].pc = "idle"
    /\ disp' = [disp EXCEPT ![d] = Call("user", u, NoDevice, Range(clients))]
    /\ UNCHANGED <<conn, Send, Subscriptions, reader, writer, clients, userClients,
                   mgr, fatal, hist, timers>>

\* Manager.SendToUser: m.mu.RLock and the lookup of m.userClients[userID]
SendToUser(d, u) ==
    /\ fatal = "none"
    /\ disp[d].pc = "idle"
    /\ LET t == Range(userClients[u])
       IN disp' = [disp EXCEPT ![d] = Call("user", u, NoDevice, t)]
    /\ UNCHANGED <<conn, Send, Subscriptions, reader, writer, clients, userClients,
                   mgr, fatal, hist, timers>>

\* Manager.SendToDevice: m.mu.RLock and the start of the range over m.clients
SendToDevice(d, dev) ==
    /\ fatal = "none"
    /\ disp[d].pc = "idle"
    /\ LET t == Range(clients)
       IN disp' = [disp EXCEPT ![d] = Call("device", 0, dev, t)]
    /\ UNCHANGED <<conn, Send, Subscriptions, reader, writer, clients, userClients,
                   mgr, fatal, hist, timers>>

\* the loop body without the test of client.Subscriptions[deviceID]
TargetsEveryone(call, c) == call.kind \in {"user", "device"}

\* the loop body decides to send to client c
Targets(call, c) ==
    \/ call.kind = "user"
    \/ call.kind = "device" /\ call.deviceID \in Subscriptions[c]

\* Message.Type of the message of a call (device.go: notification to a user,
\* device_data to the subscribers of a device)
MessageOf(call) == IF call.kind = "user" THEN TypeNotification ELSE TypeDeviceData

\* the call after its iteration on c; after the last one it returns (RUnlock)
AfterVisit(call, c, enqueued) ==
    IF call.todo = {c} THEN IdleDisp
    ELSE [call EXCEPT !.todo = @ \ {c},
                      !.sent = IF enqueued THEN @ \cup {c} ELSE @]

\* the loop body with a blocking send   client.Send <- message   in place of
\* the select with a default branch
DispatchSendBlocking(d, c) ==
    /\ fatal = "none"
    /\ disp[d].pc = "run"
    /\ c \in disp[d].todo
    /\ LET call == disp[d]
       IN IF ~Targets(call, c)
          THEN /\ disp' = [disp EXCEPT ![d] = AfterVisit(call, c, FALSE)]
               /\ UNCHANGED Send
          ELSE /\ ~Send[c].closed
               /\ ~Full(Send[c])
               /\ Send' = [Send EXCEPT ![c] = Enqueue(@, MessageOf(call))]
               /\ disp' = [disp EXCEPT ![d] = AfterVisit(call, c, TRUE)]
    /\ UNCHANGED <<conn, Subscriptions, reader, writer, clients, userClients, mgr,
                   fatal, hist, timers>>

\* One iteration of the loop of SendToUser or SendToDevice on client c.
DispatchSend(d, c) ==
    /\ fatal = "none"
    /\ disp[d].pc = "run"
    /\ c \in disp[d].todo
    /\ LET call == disp[d]
           r == SelectSend(Send[c])
       IN IF ~Targets(call, c)
          THEN /\ disp' = [disp EXCEPT ![d] = AfterVisit(call, c, FALSE)]
               /\ UNCHANGED <<Send, closes, overflow>>
          ELSE CASE r = "sent" ->
                      /\ Send' = [Send EXCEPT ![c] = Enqueue(@, MessageOf(call))]
                      /\ disp' = [disp EXCEPT ![d] = AfterVisit(call, c, TRUE)]
                      /\ UNCHANGED <<closes, overflow>>
                 [] r = "default" ->
                      /\ Send' = [Send EXCEPT ![c] = Close(@)]
                      /\ closes' = [closes EXCEPT ![c] = @ + 1]
                      /\ overflow' = [overflow EXCEPT ![c] = call.kind]
                      /\ disp' = [disp EXCEPT ![d] = AfterVisit(call, c, FALSE)]
                 [] r = "panic" ->
                      \* send on closed channel: the call unwinds at the iteration
                      \* on c with its arguments dead, RUnlock is deferred
                      /\ disp' = [disp EXCEPT ![d] =
                                    [IdleDisp EXCEPT !.pc = "panic", !.todo = {c}]]
                      /\ UNCHANGED <<Send, closes, overflow>>
    /\ UNCHANGED <<conn, Subscriptions, reader, writer, clients, userClients, mgr,
                   fatal, registered, unregistered, unsub, malformed, timers>>

\* The range over m.clients in SendToDevice races with the delete made by
\* broadcastMessage: an entry deleted meanwhile may be left out of the iteration.
DispatchSkipDeleted(d, c) ==
    /\ fatal = "none"
    /\ disp[d].pc = "run"
    /\ disp[d].kind = "device"
    /\ c \in disp[d].todo
    /\ clients[ID[c]] # c
    /\ disp' = [disp EXCEPT ![d] = AfterVisit(disp[d], c, FALSE)]
    /\ UNCHANGED <<conn, Send, Subscriptions, reader, writer, clients, userClients,
                   mgr, fatal, hist, timers>>

\* the panic of a call has unwound to the HTTP server, which recovers it
DispatchRecover(d) ==
    /\ fatal = "none"
    /\ disp[d].pc = "panic"
    /\ disp' = [disp EXCEPT ![d] = IdleDisp]
    /\ UNCHANGED <<conn, Send, Subscriptions, reader, writer, clients, userClients,
                   mgr, fatal, hist, timers>>

----------------------------------------------------------------------------
\* readPump

\* a reply that closes the client's own mailbox when it finds it full, as the
\* dispatch calls do
ReplyOrClose(c, m) ==
    LET r == SelectSend(Send[c])
    IN CASE r = "sent" -> /\ Send' = [Send EXCEPT ![c] = Enqueue(@, m)]
                          /\ UNCHANGED fatal
         [] r = "default" -> /\ Send' = [Send EXCEPT ![c] = Close(@)]
                             /\ UNCHANGED fatal
         [] r = "panic" -> /\ fatal' = "send on closed channel"
                           /\ UNCHANGED Send

\* the non-blocking send of a reply into the client's own mailbox
Reply(c, m) ==
    LET r == SelectSend(Send[c])
    IN CASE r = "sent" -> /\ Send' = [Send EXCEPT ![c] = Enqueue(@, m)]
                          /\ UNCHANGED fatal
         [] r = "default" -> UNCHANGED <<Send, fatal>>
         [] r = "panic" -> /\ fatal' = "send on closed channel"
                           /\ UNCHANGED Send

Reading(c) ==
    /\ fatal = "none"
    /\ reader[c] = "run"
    /\ connOpen[c]

\* Client.handleSubscribe on a frame with data.device_id = dev
handleSubscribe(c, dev) ==
    /\ Reading(c)
    /\ Subscriptions' = [Subscriptions EXCEPT ![c] = @ \cup {dev}]
    /\ unsub' = [unsub EXCEPT ![c] = @ \ {dev}]
    /\ Reply(c, TypeNotification)
    /\ UNCHANGED <<conn, reader, writer, clients, userClients, mgr, disp,
                   closes, registered, unregistered, overflow, malformed, timers>>

\* handleUnsubscribe without the delete from c.Subscriptions
handleUnsubscribeKeeps(c, dev) ==
    /\ Reading(c)
    /\ unsub' = [unsub EXCEPT ![c] = IF dev \in Subscriptions[c] THEN @ \cup {dev} ELSE @]
    /\ UNCHANGED <<conn, Send, Subscriptions, reader, writer, clients, userClients, mgr,
                   disp, fatal, closes, registered, unregistered, overflow, malformed, timers>>

\* Client.handleUnsubscribe on a frame with data.device_id = dev
handleUnsubscribe(c, dev) ==
    /\ Reading(c)
    /\ Subscriptions' = [Subscriptions EXCEPT ![c] = @ \ {dev}]
    /\ unsub' = [unsub EXCEPT ![c] = IF dev \in Subscriptions[c] THEN @ \cup {dev} ELSE @]
    /\ UNCHANGED <<conn, Send, reader, writer, clients, userClients, mgr, disp, fatal,
                   closes, registered, unregistered, overflow, malformed, timers>>

\* Client.handleHeartbeat
handleHeartbeat(c) ==
    /\ Reading(c)
    /\ Reply(c, TypeHeartbeat)
    /\ UNCHANGED <<conn, Subscriptions, reader, writer, clients, userClients, mgr, disp,
                   hist, timers>>

\* the reader of c receives a malformed frame of the given kind on a working
\* connection
Malformed(c, kind) ==
    /\ Reading(c)
    /\ Len(malformed[c]) < MaxMalformed
    /\ malformed' = [malformed EXCEPT ![c] = Append(@, kind)]

\* Client.handleMessage on a frame whose type is none of subscribe, unsubscribe
\* and heartbeat: the default branch logs the type
handleMessageDefault(c) ==
    /\ Malformed(c, "unknown type")
    /\ UNCHANGED <<conn, Send, Subscriptions, reader, writer, clients, userClients, mgr,
                   disp, fatal, closes, registered, unregistered, overflow, unsub, timers>>

\* Client.handleSubscribe on a frame without a string data.device_id: none of
\* the nested conditions has an else branch
handleSubscribeNoDevice(c) ==
    /\ Malformed(c, "subscribe without device_id")
    /\ UNCHANGED <<conn, Send, Subscriptions, reader, writer, clients, userClients, mgr,
                   disp, fatal, closes, registered, unregistered, overflow, unsub, timers>>

\* Client.handleUnsubscribe on a frame without a string data.device_id
handleUnsubscribeNoDevice(c) ==
    /\ Malformed(c, "unsubscribe without device_id")
    /\ UNCHANGED <<conn, Send, Subscriptions, reader, writer, clients, userClients, mgr,
                   disp, fatal, closes, registered, unregistered, overflow, unsub, timers>>

\* ReadJSON cannot decode the frame into a Message (not JSON, or a field of the
\* wrong type): it returns the decoding error and the loop breaks as for any
\* other read error
readUnparsable(c) ==
    /\ Malformed(c, "unparsable")
    /\ reader' = [reader EXCEPT ![c] = "exiting"]
    /\ UNCHANGED <<conn, Send, Subscriptions, writer, clients, userClients, mgr,
                   disp, fatal, closes, registered, unregistered, overflow, unsub, timers>>

\* ReadJSON returns an error (peer closed, read deadline passed, connection
\* closed by writePump, unparsable frame): the loop breaks and the deferred
\* function blocks on   c.Manager.unregister <- c
readError(c) ==
    /\ fatal = "none"
    /\ reader[c] = "run"
    /\ reader' = [reader EXCEPT ![c] = "exiting"]
    /\ UNCHANGED <<conn, Send, Subscriptions, writer, clients, userClients, mgr, disp,
                   fatal, hist, timers>>

----------------------------------------------------------------------------
\* writePump

\* a receive that takes the message enqueued last
DequeueLast(ch) == [ch EXCEPT !.buf = SubSeq(@, 1, Len(@) - 1)]

\* the receive   message, ok := <-c.Send   takes the message enqueued first
Dequeue(ch) == [ch EXCEPT !.buf = Tail(@)]

\* a message is received from c.Send and WriteJSON succeeds
writeMessage(c) ==
    /\ fatal = "none"
    /\ writer[c] = "run"
    /\ connOpen[c]
    /\ Send[c].buf # <<>>
    /\ Send' = [Send EXCEPT ![c] = Dequeue(@)]
    /\ UNCHANGED <<conn, Subscriptions, reader, writer, clients, userClients, mgr, disp,
                   fatal, hist, timers>>

\* a writePump that sends the close frame as soon as c.Send is closed
writeCloseAtOnce(c) ==
    /\ fatal = "none"
    /\ writer[c] = "run"
    /\ Send[c].closed
    /\ writer' = [writer EXCEPT ![c] = "done"]
    /\ connOpen' = [connOpen EXCEPT ![c] = FALSE]
    /\ UNCHANGED <<hpc, ID, UserID, Send, Subscriptions, reader, clients, userClients,
                   mgr, disp, fatal, hist, timers>>

\* the receive finds c.Send closed and drained: close frame, return, Conn.Close
writeClose(c) ==
    /\ fatal = "none"
    /\ writer[c] = "run"
    /\ Send[c].buf = <<>>
    /\ Send[c].closed
    /\ writer' = [writer EXCEPT ![c] = "done"]
    /\ connOpen' = [connOpen EXCEPT ![c] = FALSE]
    /\ UNCHANGED <<hpc, ID, UserID, Send, Subscriptions, reader, clients, userClients,
                   mgr, disp, fatal, hist, timers>>

\* WriteJSON of a received message, or the ping write, fails: return, Conn.Close
writeError(c) ==
    /\ fatal = "none"
    /\ writer[c] = "run"
    /\ \/ /\ Send[c].buf # <<>>
          /\ Send' = [Send EXCEPT ![c] = Dequeue(@)]
       \/ UNCHANGED Send
    /\ writer' = [writer EXCEPT ![c] = "done"]
    /\ connOpen' = [connOpen EXCEPT ![c] = FALSE]
    /\ UNCHANGED <<hpc, ID, UserID, Subscriptions, reader, clients, userClients,
                   mgr, disp, fatal, hist, timers>>

----------------------------------------------------------------------------
\* Time: the read deadline of readPump and the ticker of writePump

\* one unit of time passes: the read deadline of every running reader and the
\* ticker of every running writer come one unit closer
Tick ==
    /\ fatal = "none"
    /\ \E c \in Clients : \/ (reader[c] = "run" /\ timers[c].deadline > 0)
                           \/ (writer[c] = "run" /\ timers[c].ticker > 0)
    /\ timers' = [c \in Clients |->
                     [timers[c] EXCEPT
                        !.deadline = IF reader[c] = "run" /\ @ > 0 THEN @ - 1 ELSE @,
                        !.ticker = IF writer[c] = "run" /\ @ > 0 THEN @ - 1 ELSE @]]
    /\ UNCHANGED <<conn, Send, Subscriptions, reader, writer, clients, userClients, mgr,
                   disp, fatal, hist>>

\* the ticker has fired and writePump writes a ping frame
writePing(c) ==
    /\ fatal = "none"
    /\ writer[c] = "run"
    /\ connOpen[c]
    /\ timers[c].ticker = 0
    /\ timers' = [timers EXCEPT ![c].ticker = PingPeriod, ![c].pinged = TRUE]
    /\ UNCHANGED <<conn, Send, Subscriptions, reader, writer, clients, userClients, mgr,
                   disp, fatal, hist>>

\* the handler installed by SetPongHandler pushes the read deadline out
PongHandler(t) == [t EXCEPT !.deadline = ReadWait]

\* the peer answers the ping and the reader, inside ReadJSON before the read
\* deadline, receives the pong frame and runs the pong handler
peerPong(c) ==
    /\ Reading(c)
    /\ timers[c].pinged
    /\ timers[c].deadline > 0
    /\ timers' = [timers EXCEPT ![c] = PongHandler([@ EXCEPT !.pinged = FALSE])]
    /\ UNCHANGED <<conn, Send, Subscriptions, reader, writer, clients, userClients, mgr,
                   disp, fatal, hist>>

\* the read deadline has passed: ReadJSON returns a timeout error, the loop
\* breaks and the deferred function blocks on   c.Manager.unregister <- c
readTimeout(c) ==
    /\ fatal = "none"
    /\ reader[c] = "run"
    /\ timers[c].deadline = 0
    /\ reader' = [reader EXCEPT ![c] = "exiting"]
    /\ UNCHANGED <<conn, Send, Subscriptions, writer, clients, userClients, mgr, disp,
                   fatal, hist, timers>>

----------------------------------------------------------------------------
\* The specification of one connection: every operation of the manager, of the
\* dispatch calls and of the connection's handler, reader and writer.
Single == {1}

Next ==
    \/ \E c \in Single : HandleWebSocket(c)
    \/ \E c \in Clients : RunRegister(c)
    \/ registerClient
    \/ \E c \in Clients : RunUnregister(c)
    \/ unregisterClient
    \/ RunBroadcast
    \/ \E c \in Clients : broadcastMessage(c)
    \/ \E d \in Callers, u \in UserIDs : SendToUser(d, u)
    \/ \E d \in Callers, dev \in DeviceIDs : SendToDevice(d, dev)
    \/ \E d \in Callers, c \in Clients : DispatchSend(d, c)
    \/ \E d \in Callers, c \in Clients : DispatchSkipDeleted(d, c)
    \/ \E d \in Callers : DispatchRecover(d)
    \/ \E c \in Clients, dev \in DeviceIDs : handleSubscribe(c, dev)
    \/ \E c \in Clients, dev \in DeviceIDs : handleUnsubscribe(c, dev)
    \/ \E c \in Clients : readError(c)
    \/ \E c \in Clients : writeMessage(c)
    \/ \E c \in Clients : writeClose(c)
    \/ \E c \in Clients : writeError(c)

Spec == Init /\ [][Next]_vars

\* Fan-out by identity over all the connections: the connections, the manager,
\* Broadcast and SendToUser; the peers send no control frames, and no two
\* connections are made at the same clock readings.
NextUser ==
    \/ \E c \in Clients : HandleWebSocket(c) /\ OwnClockReading(c)
    \/ \E c \in Clients : RunRegister(c)
    \/ registerClient
    \/ \E c \in Clients : RunUnregister(c)
    \/ unregisterClient
    \/ RunBroadcast
    \/ \E c \in Clients : broadcastMessage(c)
    \/ \E d \in Callers, u \in UserIDs : SendToUser(d, u)
    \/ \E d \in Callers, c \in Clients : DispatchSend(d, c)
    \/ \E d \in Callers : DispatchRecover(d)
    \/ \E c \in Clients : readError(c)
    \/ \E c \in Clients : writeMessage(c)
    \/ \E c \in Clients : writeClose(c)
    \/ \E c \in Clients : writeError(c)

SpecUser == Init /\ [][NextUser]_vars

\* Fan-out by topic over all the connections: the connections, the manager,
\* subscribe frames and SendToDevice; the peers keep their connections up, so
\* that no write fails and a read fails only once writePump has closed the
\* connection.
NextDevice ==
    \/ \E c \in Clients : HandleWebSocket(c) /\ OwnClockReading(c)
    \/ \E c \in Clients : RunRegister(c)
    \/ registerClient
    \/ \E c \in Clients : RunUnregister(c)
    \/ unregisterClient
    \/ \E d \in Callers, dev \in DeviceIDs : SendToDevice(d, dev)
    \/ \E d \in Callers, c \in Clients : DispatchSend(d, c)
    \/ \E d \in Callers : DispatchRecover(d)
    \/ \E c \in Clients, dev \in DeviceIDs : handleSubscribe(c, dev)
    \/ \E c \in Clients : ~connOpen[c] /\ readError(c)
    \/ \E c \in Clients : writeMessage(c)
    \/ \E c \in Clients : writeClose(c)

InitDevice == Init /\ UserID = [c \in Clients |-> 1]

SpecDevice == InitDevice /\ [][NextDevice]_vars

----------------------------------------------------------------------------
\* Vocabulary of the properties

\* no index of the manager references client c
Absent(c) ==
    /\ c \notin Range(clients)
    /\ \A u \in UserIDs : c \notin Range(userClients[u])

\* the clients a SendToDevice(dev, ...) call would send to
DeviceTargets(dev) ==
    {c \in Range(clients) : Targets([kind |-> "device", deviceID |-> dev], c)}

\* the session of c is in the state Active: registered, mailbox not closed
Active(c) == registered[c] /\ ~Send[c].closed

\* in this step a message of type m is enqueued into the mailbox of c
Enqueued(c, m) == Send'[c].buf = Append(Send[c].buf, m)

\* in this step the call of caller d makes its loop iteration on client c
Visits(d, c) ==
    /\ disp[d].pc = "run"
    /\ c \in disp[d].todo
    /\ disp'[d] # disp[d]
    /\ IF disp'[d].pc = "panic" THEN disp'[d].todo = {c} ELSE c \notin disp'[d].todo

\* a call only ever shrinks what it has still to visit, so that it visits a
\* client at most once
VisitsOnce(d) ==
    disp[d].pc = "run" /\ disp'[d].pc = "run" /\ disp'[d] # disp[d]
        => /\ disp'[d].todo \subseteq disp[d].todo
           /\ disp'[d].todo # disp[d].todo

----------------------------------------------------------------------------
\* C1: a session whose mailbox a dispatch (broadcastMessage, SendToUser,
\* SendToDevice) found full is, once its teardown has completed (reader and
\* writer have exited and the unregister request has been processed), absent
\* from clients and from userClients, hence from every topic's subscribers.
C1_OverflowTeardownRemoves ==
    \A c \in Clients :
        /\ overflow[c] \in {"broadcast", "user", "device"}
        /\ reader[c] = "done"
        /\ writer[c] = "done"
        /\ unregistered[c]
        => Absent(c)

\* C2: the mailbox channel of a session is closed at most once, whatever the
\* interleaving of the teardown triggers.
C2_ClosedAtMostOnce == \A c \in Clients : closes[c] <= 1

\* C5: GetClientCount() equals the number of sessions whose registration has
\* completed and whose unregister has not yet been executed.
C5_CountIsRegisteredNotUnregistered ==
    fatal = "none"
        => GetClientCount = Cardinality({c \in Clients : registered[c] /\ ~unregistered[c]})

\* C6: clients and userClients agree: a session with an identity is referenced
\* by userClients[its identity] exactly when it is in clients, and
\* GetUserClientCount(u) is the number of sessions in clients with identity u.
C6_IndexesAgree ==
    /\ \A c \in Clients :
          hpc[c] \in {"handoff", "started"} /\ UserID[c] # 0
              => (c \in Range(userClients[UserID[c]]) <=> c \in Range(clients))
    /\ \A u \in UserIDs \ {0} :
          GetUserClientCount(u) = Cardinality({c \in Range(clients) : UserID[c] = u})

\* C7: for an active session, a topic is in its subscription set exactly when
\* SendToDevice on that topic would target it, and a session that is not active
\* (any more) is targeted for no topic.
C7_SubscribersAreActiveSubscribers ==
    \A c \in Clients, dev \in DeviceIDs :
        /\ Active(c) => (dev \in Subscriptions[c] <=> c \in DeviceTargets(dev))
        /\ ~Active(c) => c \notin DeviceTargets(dev)

\* C9: once unregisterClient has returned for a session, neither clients nor
\* userClients (nor any topic's subscribers) references the session.
C9_UnregisteredIsGone == \A c \in Clients : unregistered[c] => Absent(c)

\* C10: once the send on the register channel in HandleWebSocket has returned,
\* the session is in the registry (until it is torn down), so that its reader and
\* writer only run on a registered session.
C10_HandoffMeansRegistered ==
    \A c \in Clients :
        hpc[c] = "started" /\ ~Send[c].closed /\ ~unregistered[c]
            => c \in Range(clients)

----------------------------------------------------------------------------
C8_NoDeliveryAfterUnsubscribe ==
    [][\A c \in Clients, dev \in DeviceIDs :
          dev \in unsub[c]
              => ~ \E d \in Callers :
                     /\ Visits(d, c)
                     /\ disp[d].kind = "device"
                     /\ disp[d].deviceID = dev
                     /\ Send'[c] # Send[c]]_vars

\* a SendToDevice call on a topic is about to visit a registered session that
\* has unsubscribed from the topic and whose mailbox is open and has room
C8_Witness ==
    \E d \in Callers, c \in Clients :
        /\ disp[d].pc = "run"
        /\ disp[d].kind = "device"
        /\ disp[d].deviceID \in unsub[c]
        /\ c \in disp[d].todo
        /\ c \in Range(clients)
        /\ SelectSend(Send[c]) = "sent"

----------------------------------------------------------------------------
\* in this step the call of caller d ends: it returns or it panics
Ends(d) == disp[d].pc = "run" /\ disp'[d].pc # "run"

\* client c is a target with room of the call record: the loop body would
\* enqueue the message of the call into its mailbox
HasRoom(call, c) == Targets(call, c) /\ SelectSend(Send[c]) = "sent"

\* C11: within one SendToUser or SendToDevice call, and within one broadcast,
\* every target whose own mailbox has room receives the message, whatever the
\* state of the mailboxes of the other targets: a call never ends, and a
\* broadcast is never abandoned, while a target with room has not been
\* visited.
C11_TargetsIndependent ==
    [][/\ \A d \in Callers, c \in Clients :
             Ends(d) /\ c \in disp[d].todo /\ HasRoom(disp[d], c) => Visits(d, c)
       /\ \A c \in Clients :
             /\ mgr.pc = "broadcast"
             /\ fatal = "none"
             /\ fatal' = "send on closed channel"
             /\ c \in mgr'.todo
             => SelectSend(Send[c]) # "sent"]_vars

\* C12: a broadcast enqueues its message exactly once into the mailbox of every
\* session that is in clients when Manager.Run takes the message and whose
\* mailbox has room, and into no other mailbox: each iteration of the loop
\* enqueues into the visited session's mailbox if and only if it has room, the
\* session is in clients, no session is visited twice, and the loop is not
\* abandoned while registered sessions with room remain.
C12_BroadcastExactlyOnce ==
    [][mgr.pc = "broadcast" /\ mgr' # mgr
          => /\ mgr'.pc = "broadcast" => mgr'.todo \subseteq mgr.todo /\ mgr'.todo # mgr.todo
             /\ \A c \in mgr.todo \ mgr'.todo :
                   /\ c \in Range(clients)
                   /\ Enqueued(c, TypeNotification) <=> SelectSend(Send[c]) = "sent"
             /\ \A c \in mgr'.todo :
                   fatal' # "none" => SelectSend(Send[c]) # "sent" \/ c \notin Range(clients)]_vars

----------------------------------------------------------------------------
\* Scheduling of the dispatch calls and of the broadcast loop alone: the
\* goroutine of a call that is inside its loop, and Manager.Run inside
\* broadcastMessage, get to run; nothing is assumed of the connections, of their
\* readers and writers or of the peers, which may stall for ever.
FairCalls ==
    /\ \A d \in Callers : WF_vars(\E c \in Clients : DispatchSend(d, c))
    /\ \A d \in Callers : WF_vars(DispatchRecover(d))
    /\ WF_vars(\E c \in Clients : broadcastMessage(c))

\* The connections, the manager, Broadcast and SendToUser; the peers keep their
\* connections up, so that a connection is only closed by its writePump.
NextCalls ==
    \/ \E c \in Clients : HandleWebSocket(c) /\ OwnClockReading(c)
    \/ \E c \in Clients : RunRegister(c)
    \/ registerClient
    \/ \E c \in Clients : RunUnregister(c)
    \/ unregisterClient
    \/ RunBroadcast
    \/ \E c \in Clients : broadcastMessage(c)
    \/ \E d \in Callers, u \in UserIDs : SendToUser(d, u)
    \/ \E d \in Callers, c \in Clients : DispatchSend(d, c)
    \/ \E d \in Callers : DispatchRecover(d)
    \/ \E c \in Clients : ~connOpen[c] /\ readError(c)
    \/ \E c \in Clients : writeMessage(c)
    \/ \E c \in Clients : writeClose(c)

SpecCalls == Init /\ [][NextCalls]_vars /\ FairCalls

----------------------------------------------------------------------------
\* Message.Type of the messages that are ever enqueued
MessageTypes == {TypeNotification, TypeDeviceData, TypeHeartbeat}

\* in this step the writer of c receives the message at the head of the mailbox
\* (and hands it to WriteJSON)
Written(c) ==
    /\ writer[c] = "run"
    /\ Send[c].buf # <<>>
    /\ Send'[c].buf = Tail(Send[c].buf)

\* C14: the writer puts the messages of a session on the wire in the order in
\* which they were enqueued: whoever the enqueuer is (dispatch call, manager,
\* the session's reader), a message goes behind all those already in the
\* mailbox, the writer only ever takes the one at the head, and nothing else
\* changes the content of a mailbox.
C14_WriterFIFO ==
    [][\A c \in Clients :
          Send'[c].buf # Send[c].buf
              => \/ \E m \in MessageTypes : Enqueued(c, m)
                 \/ Written(c)]_vars

\* the welcome of the manager and the device data of a dispatch call wait in
\* this order in the mailbox of a session whose writer is running
C14_Witness ==
    \E c \in Clients :
        /\ Send[c].buf = <<TypeNotification, TypeDeviceData>>
        /\ writer[c] = "run"
        /\ connOpen[c]

----------------------------------------------------------------------------
\* C15: an anonymous session (UserID 0) is never entered in the identity index
\* userClients, and no SendToUser call, whatever its argument, enqueues into
\* the mailbox of an anonymous session.
C15_AnonymousNotIndexed ==
    [][\A c \in Clients :
          UserID[c] = 0
              => /\ \A u \in UserIDs : c \notin Range(userClients'[u])
                 /\ ~ \E d \in Callers :
                        /\ Visits(d, c)
                        /\ disp[d].kind = "user"
                        /\ Enqueued(c, TypeNotification)]_vars

----------------------------------------------------------------------------
\* Connections made at any clock readings, equal ones included: the
\* connections, the manager, Broadcast, the readers and the writers.
NextIDs ==
    \/ \E c \in Clients : HandleWebSocket(c)
    \/ \E c \in Clients : RunRegister(c)
    \/ registerClient
    \/ \E c \in Clients : RunUnregister(c)
    \/ unregisterClient
    \/ RunBroadcast
    \/ \E c \in Clients : broadcastMessage(c)
    \/ \E c \in Clients : readError(c)
    \/ \E c \in Clients : writeMessage(c)
    \/ \E c \in Clients : writeClose(c)
    \/ \E c \in Clients : writeError(c)

SpecIDs == Init /\ [][NextIDs]_vars

\* C16: no two sessions that are active at the same time have the same id, so
\* that registering a session never replaces or shadows the entry of another
\* session in clients or in userClients.
C16_NoSharedID ==
    \A c, o \in Clients :
        c # o /\ Active(c) /\ Active(o) /\ ~unregistered[c] /\ ~unregistered[o]
            => ID[c] # ID[o]

----------------------------------------------------------------------------
\* C17: unregisterClient executed for a session that was already removed from
\* clients (here: by broadcastMessage, which found its mailbox full) leaves
\* clients, userClients and every mailbox as they were and raises no error.
C17_UnregisterIdempotent ==
    [][/\ mgr.pc = "unregister"
       /\ mgr'.pc = "idle"
       /\ overflow[mgr.c] = "broadcast"
       => /\ clients' = clients
          /\ userClients' = userClients
          /\ Send' = Send
          /\ fatal' = fatal]_vars

----------------------------------------------------------------------------
\* The frames of one connection: the connection, the manager, the reader with
\* every kind of inbound frame, well-formed or malformed, and the writer.
NextFrames ==
    \/ \E c \in Single : HandleWebSocket(c)
    \/ \E c \in Clients : RunRegister(c)
    \/ registerClient
    \/ \E c \in Clients : RunUnregister(c)
    \/ unregisterClient
    \/ \E c \in Clients, dev \in DeviceIDs : handleSubscribe(c, dev)
    \/ \E c \in Clients, dev \in DeviceIDs : handleUnsubscribe(c, dev)
    \/ \E c \in Clients : handleHeartbeat(c)
    \/ \E c \in Clients : handleMessageDefault(c)
    \/ \E c \in Clients : handleSubscribeNoDevice(c)
    \/ \E c \in Clients : handleUnsubscribeNoDevice(c)
    \/ \E c \in Clients : readUnparsable(c)
    \/ \E c \in Clients : readError(c)
    \/ \E c \in Clients : writeMessage(c)
    \/ \E c \in Clients : writeClose(c)
    \/ \E c \in Clients : writeError(c)

SpecFrames == Init /\ [][NextFrames]_vars

\* in this step the reader of c receives and processes a malformed frame
ReceivesMalformed(c) == malformed'[c] # malformed[c]

\* C18: for every malformed frame received on a working connection (unparsable,
\* unknown type, subscribe or unsubscribe without a string data.device_id) the
\* reader enqueues an error message into the session's own mailbox and goes on
\* reading.
C18_MalformedAnswered ==
    [][\A c \in Clients :
          ReceivesMalformed(c) => Enqueued(c, TypeError) /\ reader'[c] = "run"]_vars

\* C19: processing a malformed frame on a working connection sends no
\* unregister request and leaves the session active, and clients, userClients
\* and the session's subscription set unchanged.
C19_MalformedStaysLocal ==
    [][\A c \in Clients :
          ReceivesMalformed(c)
              => /\ reader'[c] = "run"
                 /\ Send'[c].closed = Send[c].closed
                 /\ clients' = clients
                 /\ userClients' = userClients
                 /\ Subscriptions' = Subscriptions]_vars

----------------------------------------------------------------------------
\* Fair scheduling of one connection's teardown.  Manager.Run gets to run: its
\* select takes a ready case at random, and a pending m.mu.Lock keeps new
\* readers of the lock out, hence strong fairness for the steps that wait for
\* the loop to be idle or for the lock.  Dispatch calls get to run.  A read on a
\* closed connection fails; the writer gets to run, and a write on a closed
\* connection (at the latest the next ping) fails.  Nothing is assumed of the
\* peer: no frame, no error and no call is ever forced to happen.
FairTeardown ==
    /\ \A c \in Clients : SF_vars(RunUnregister(c))
    /\ SF_vars(registerClient)
    /\ SF_vars(unregisterClient)
    /\ WF_vars(\E c \in Clients : broadcastMessage(c))
    /\ \A d \in Callers : WF_vars(\E c \in Clients : DispatchSend(d, c))
    /\ \A d \in Callers : WF_vars(\E c \in Clients : DispatchSkipDeleted(d, c))
    /\ \A d \in Callers : WF_vars(DispatchRecover(d))
    /\ \A c \in Clients : WF_vars(~connOpen[c] /\ readError(c))
    /\ \A c \in Clients : WF_vars(writeMessage(c))
    /\ \A c \in Clients : WF_vars(writeClose(c))
    /\ \A c \in Clients : WF_vars(~connOpen[c] /\ writeError(c))

SpecTeardown == Init /\ [][Next]_vars /\ FairTeardown

\* C20: after a read error (the reader has left its loop) or a write error
\* (the writer has returned) on a session's connection, eventually the reader
\* and the writer have both terminated, no index of the manager references the
\* session and its mailbox is closed.
C20_TeardownCompletes ==
    \A c \in Clients :
        (reader[c] = "exiting" \/ writer[c] = "done")
            ~> /\ reader[c] = "done"
               /\ writer[c] = "done"
               /\ Absent(c)
               /\ Send[c].closed

----------------------------------------------------------------------------
\* The liveness timers of one connection whose peer keeps it up: the
\* connection, the manager, the reader with heartbeat frames, pongs and the
\* read deadline, the writer with its pings, and the passing of time.
NextLiveness ==
    \/ \E c \in Single : HandleWebSocket(c)
    \/ \E c \in Clients : RunRegister(c)
    \/ registerClient
    \/ \E c \in Clients : RunUnregister(c)
    \/ unregisterClient
    \/ \E c \in Clients : handleHeartbeat(c)
    \/ \E c \in Clients : peerPong(c)
    \/ \E c \in Clients : readTimeout(c)
    \/ \E c \in Clients : ~connOpen[c] /\ readError(c)
    \/ \E c \in Clients : writeMessage(c)
    \/ \E c \in Clients : writePing(c)
    \/ \E c \in Clients : writeClose(c)
    \/ \E c \in Clients : writeError(c)
    \/ Tick

\* Manager.Run gets to run, and a ReadJSON whose deadline has passed returns.
\* Nothing is assumed of the peer or of the writer.
FairLiveness ==
    /\ \A c \in Clients : SF_vars(RunUnregister(c))
    /\ SF_vars(registerClient)
    /\ SF_vars(unregisterClient)
    /\ \A c \in Clients : WF_vars(readTimeout(c))

SpecLiveness == Init /\ [][NextLiveness]_vars /\ FairLiveness

\* in this step the reader of c leaves its loop although the connection is up:
\* with a peer that keeps the connection up, for the read deadline
TimesOut(c) == reader[c] = "run" /\ reader'[c] = "exiting" /\ connOpen[c]

\* in this step the reader of c observes the pong that answers a ping
ObservesPong(c) == timers[c].pinged /\ ~timers'[c].pinged

----------------------------------------------------------------------------
\* in this step the upgrade of connection c fails and HandleWebSocket returns
UpgradeFails(c) == hpc[c] = "idle" /\ hpc'[c] = "rejected"

\* C22: a failed upgrade brings no session into existence: the step changes
\* nothing but the handler's position (no register event, clients and
\* userClients unchanged, no reader or writer started), and a rejected
\* connection never has an id, a reader, a writer or an entry in an index.
C22_FailedUpgradeCreatesNothing ==
    /\ [][\A c \in Clients :
            UpgradeFails(c) =>
                /\ \A o \in Clients \ {c} : hpc'[o] = hpc[o]
                /\ UNCHANGED <<ID, UserID, Send, Subscriptions, connOpen, reader, writer,
                               clients, userClients, mgr, disp, fatal, hist, timers>>]_vars
    /\ [](\A c \in Clients :
            hpc[c] = "rejected" =>
                /\ ID[c] = Nil
                /\ reader[c] = "none"
                /\ writer[c] = "none"
                /\ ~registered[c]
                /\ mgr.c # c
                /\ Absent(c))

\* one upgrade has failed while the other connection is a registered session
C22_Witness ==
    \E c, o \in Clients :
        /\ hpc[c] = "rejected"
        /\ registered[o]
        /\ o \in Range(clients)

----------------------------------------------------------------------------
\* no session subscribes to the topic dev
NoSubscriber(dev) == \A c \in Clients : dev \notin Subscriptions[c]

\* in this step caller d enters the loop of a dispatch call
EntersLoop(d) == disp[d].pc = "idle" /\ disp'[d].pc = "run"

----------------------------------------------------------------------------
\* C24: no code path attempts to enqueue into a mailbox that is closed: no
\* dispatch call has panicked on such a send, and the process has not died of
\* one made by broadcastMessage, by registerClient or by the reader.
C24_NoSendOnClosed ==
    /\ fatal # "send on closed channel"
    /\ \A d \in Callers : disp[d].pc # "panic"

----------------------------------------------------------------------------
\* in this step an entry is inserted into or deleted from clients or userClients
MutatesRegistry == clients' # clients \/ userClients' # userClients

\* m.mu is held exclusively: Manager.Run is inside registerClient or
\* unregisterClient and no dispatch call holds the read lock
LockedExclusively == mgr.pc \in {"register", "unregister"} /\ ~RLocked

\* C25: every insertion into and deletion from clients or userClients is made
\* while the manager lock is held exclusively, never while a dispatch call
\* holds the read lock.
C25_MutationsUnderWriteLock == [][MutatesRegistry => LockedExclusively]_vars

----------------------------------------------------------------------------
\* in this step registerClient runs for c (and attempts the welcome)
Registers(c) == ~registered[c] /\ registered'[c]

\* C26: the welcome is the first message placed in the mailbox of a session:
\* whatever is enqueued into the mailbox of a session that registerClient has
\* not yet run for is the welcome enqueued by registerClient itself.
C26_WelcomeFirst ==
    [][\A c \in Clients :
          (~registered[c] /\ \E m \in MessageTypes : Enqueued(c, m)) => Registers(c)]_vars

----------------------------------------------------------------------------
\* Manager.Run is about to take m.mu.Lock: a blocked Lock of a sync.RWMutex
\* keeps new readers from acquiring the lock
LockPending == mgr.pc \in {"register", "unregister"}

\* The hand-offs to Manager.Run: the connections with their handlers, readers
\* and writers, the manager, Broadcast and SendToUser; the peers keep their
\* connections up, so that a reader fails once its writePump has closed the
\* connection.
NextManager ==
    \/ \E c \in Clients : HandleWebSocket(c) /\ OwnClockReading(c)
    \/ \E c \in Clients : RunRegister(c)
    \/ registerClient
    \/ \E c \in Clients : RunUnregister(c)
    \/ unregisterClient
    \/ RunBroadcast
    \/ \E c \in Clients : broadcastMessage(c)
    \/ \E d \in Callers, u \in UserIDs : ~LockPending /\ SendToUser(d, u)
    \/ \E d \in Callers, c \in Clients : DispatchSend(d, c)
    \/ \E d \in Callers : DispatchRecover(d)
    \/ \E c \in Clients : ~connOpen[c] /\ readError(c)
    \/ \E c \in Clients : writeMessage(c)
    \/ \E c \in Clients : writeClose(c)

\* The select of Manager.Run chooses among the ready channels at random, so a
\* sender that is ready whenever the loop is back at the select is eventually
\* received from: strong fairness for the two hand-offs.  Inside a handler the
\* goroutine of Manager.Run gets to run, and so do the dispatch calls that
\* hold the read lock.  Nothing is assumed of the peers and of the writers.
FairManager ==
    /\ \A c \in Clients : SF_vars(RunRegister(c))
    /\ \A c \in Clients : SF_vars(RunUnregister(c))
    /\ WF_vars(registerClient)
    /\ WF_vars(unregisterClient)
    /\ WF_vars(\E c \in Clients : broadcastMessage(c))
    /\ \A d \in Callers : WF_vars(\E c \in Clients : DispatchSend(d, c))
    /\ \A d \in Callers : WF_vars(DispatchRecover(d))

SpecManager == InitDevice /\ [][NextManager]_vars /\ FairManager

\* C27: Manager.Run always makes progress: every event it has received is
\* handled to the end, so that the loop is back at its select, and every
\* pending hand-off (the register send of HandleWebSocket, the unregister send
\* of readPump) is eventually accepted.
C27_ManagerProgress ==
    /\ mgr.pc # "idle" ~> mgr.pc = "idle"
    /\ \A c \in Clients : hpc[c] = "handoff" ~> hpc[c] = "started"
    /\ \A c \in Clients : reader[c] = "exiting" ~> reader[c] = "done"

----------------------------------------------------------------------------
\* One connection on which no write fails and which the peer keeps up: the
\* connection, the manager, the reader with subscribe and heartbeat frames,
\* SendToUser, and the writer.
NextDrain ==
    \/ \E c \in Single : HandleWebSocket(c)
    \/ \E c \in Clients : RunRegister(c)
    \/ registerClient
    \/ \E c \in Clients : RunUnregister(c)
    \/ unregisterClient
    \/ \E d \in Callers, u \in UserIDs : SendToUser(d, u)
    \/ \E d \in Callers, c \in Clients : DispatchSend(d, c)
    \/ \E d \in Callers : DispatchRecover(d)
    \/ \E c \in Clients, dev \in DeviceIDs : handleSubscribe(c, dev)
    \/ \E c \in Clients : handleHeartbeat(c)
    \/ \E c \in Clients : ~connOpen[c] /\ readError(c)
    \/ \E c \in Clients : writeMessage(c)
    \/ \E c \in Clients : writeClose(c)

SpecDrain == Init /\ [][NextDrain]_vars

\* in this step the writer of c returns; where no write fails it has sent the
\* close frame
WriterExits(c) == writer[c] = "run" /\ writer'[c] = "done"

----------------------------------------------------------------------------
\* in this step the reader of c records a subscription to dev that c did not have
Subscribes(c, dev) == dev \notin Subscriptions[c] /\ dev \in Subscriptions'[c]

\* in this step an acknowledgement of a subscription is enqueued for c (where
\* nobody but registerClient and the reader enqueues notifications)
Acknowledged(c) == Enqueued(c, TypeNotification) /\ ~Registers(c)

\* the step leaves the session of c as it is: in the indexes it is in, with
\* its reader and writer where they are, its connection and its mailbox not closed
StaysUp(c) ==
    /\ UNCHANGED <<clients, userClients, reader, writer, connOpen, closes, overflow>>
    /\ Send'[c].closed = Send[c].closed

\* C29: a subscribe frame with a string device_id adds exactly that topic to
\* the session's subscriptions (nothing, if it is there already); on a mailbox
\* that is open the acknowledgement is enqueued when there is room and dropped
\* when it is full, and in both cases the session is neither torn down nor
\* removed from an index.
C29_SubscribeEffect ==
    [][\A c \in Clients :
          /\ \A dev \in DeviceIDs :
                Subscribes(c, dev) =>
                    /\ Subscriptions'[c] = Subscriptions[c] \cup {dev}
                    /\ StaysUp(c)
                    /\ ~Send[c].closed =>
                          /\ fatal' = fatal
                          /\ IF Full(Send[c]) THEN Send'[c] = Send[c]
                             ELSE Enqueued(c, TypeNotification)
          /\ Acknowledged(c) =>
                /\ \/ Subscriptions'[c] = Subscriptions[c]
                   \/ \E dev \in DeviceIDs : Subscribes(c, dev)
                /\ Subscriptions[c] \subseteq Subscriptions'[c]
                /\ Subscriptions'[c] # {}
                /\ StaysUp(c)]_vars

\* a registered session has both topics in its subscriptions while its mailbox
\* is open and full of heartbeat replies, so that an acknowledgement found no
\* room or will find none
C29_Witness ==
    \E c \in Clients :
        /\ registered[c]
        /\ reader[c] = "run"
        /\ Subscriptions[c] = DeviceIDs
        /\ ~Send[c].closed
        /\ Full(Send[c])
        /\ \A i \in 1..Len(Send[c].buf) : Send[c].buf[i] = TypeHeartbeat

----------------------------------------------------------------------------
\* C30: a mailbox never holds more messages than its capacity; hence an
\* enqueue attempted on a mailbox at capacity adds nothing to it.
C30_MailboxBounded == \A c \in Clients : Len(Send[c].buf) <= MailboxCap

\* a dispatch call or a broadcast found the mailbox of a session at capacity,
\* and it still holds as many messages as its capacity
C30_Witness ==
    \E c \in Clients :
        /\ overflow[c] \in {"user", "device", "broadcast"}
        /\ Len(Send[c].buf) = MailboxCap

====
